---------------------------- MODULE Spec2Model ----------------------------
(***************************************************************************)
(* A model of setup.py of px-ldap-group-cleanup: the module's top level    *)
(* as a sequential process.  It imports setuptools, reads README.md in     *)
(* text mode inside a with-block, and calls setuptools.setup once with a   *)
(* fixed set of keyword arguments plus the text that was read.             *)
(*                                                                         *)
(* The environment (the bytes of README.md or its absence, the locale's    *)
(* preferred encoding, whether setuptools is importable, what              *)
(* find_packages() finds, whether setup() returns or raises) is chosen     *)
(* nondeterministically.                                                   *)
(***************************************************************************)
EXTENDS Integers, Sequences, FiniteSets, TLC

VARIABLES
    pc,                \* the statement the interpreter is about to run
    readmeExists,      \* whether open('README.md', 'r') can succeed
    readme,            \* the bytes of README.md (empty when it cannot be opened)
    encoding,          \* locale.getpreferredencoding(False), used by open()
    fh,                \* state of the file object bound by the with-statement
    fhPos,             \* number of bytes of README.md consumed through fh
    exc,               \* the exception raised so far, "None" while there is none
    long_description,  \* the module global of that name, Unbound until assigned
    packages,          \* the value of setuptools.find_packages()
    setupLog           \* keyword arguments of each setuptools.setup call, in order

vars == <<pc, readmeExists, readme, encoding, fh, fhPos, exc, long_description,
          packages, setupLog>>

---------------------------------------------------------------------------
(* Bounds of the environment                                               *)

\* longest README.md, in bytes
MaxLen == 3

\* most package directories find_packages() can find
MaxPackages == 1

\* Bytes a README.md is made of: a letter, the two line-end bytes, and a
\* byte that is not valid UTF-8.
Bytes == {"a", "CR", "LF", "0xFF"}

Encodings == {"utf-8", "latin-1"}

PackageDirs == {"pkg" \o ToString(i) : i \in 1..MaxPackages}

\* A name that has not been assigned yet: no text and no package list.
Unbound == <<"Unbound">>

NotEvaluated == {"NotEvaluated"}

\* Exceptions that opening or reading README.md raises.
ReadmeErrors == {"OSError(open)", "OSError(read)", "UnicodeDecodeError"}

BoundedSeq(S, n) == UNION {[1..k -> S] : k \in 0..n}

---------------------------------------------------------------------------
(* Text-mode reading: open('README.md', 'r') followed by fh.read()         *)

\* One byte decoded under the file's encoding; "error" when strict decoding
\* rejects it.
DecodeByte(b, enc) ==
    IF b = "0xFF"
    THEN IF enc = "utf-8" THEN "error" ELSE "U+00FF"
    ELSE b

Decodable(bytes, enc) ==
    \A i \in DOMAIN bytes : DecodeByte(bytes[i], enc) # "error"

Decode(bytes, enc) == [i \in DOMAIN bytes |-> DecodeByte(bytes[i], enc)]

\* Universal-newlines translation of newline=None: CR LF and a lone CR both
\* become LF.
RECURSIVE UniversalNewlines(_)
UniversalNewlines(s) ==
    IF s = <<>> THEN <<>>
    ELSE IF Head(s) = "CR"
         THEN IF Len(s) >= 2 /\ s[2] = "LF"
              THEN <<"LF">> \o UniversalNewlines(SubSeq(s, 3, Len(s)))
              ELSE <<"LF">> \o UniversalNewlines(Tail(s))
         ELSE <<Head(s)>> \o UniversalNewlines(Tail(s))

\* The text up to and including the first line end: what fh.readline()
\* would return.
FirstLine(s) ==
    IF \E i \in DOMAIN s : s[i] = "LF"
    THEN SubSeq(s, 1, CHOOSE i \in DOMAIN s :
                         s[i] = "LF" /\ \A j \in 1..(i-1) : s[j] # "LF")
    ELSE s

\* fh.read(): the whole file, decoded and newline-translated.
FhRead(bytes, enc) == UniversalNewlines(Decode(bytes, enc))

---------------------------------------------------------------------------
(* The keyword arguments of the setuptools.setup call                      *)

Name == "px-ldap-group-cleanup"

\* A version derived from the text of README.md instead of a literal.
VersionFromReadme == IF long_description = <<>> THEN "0.0.0" ELSE "0.0.1"

Version == "0.0.1"

\* A second script slipped into the list.
ScriptsWithHelper == <<"px-ldap-group-cleanup", "px-ldap-group-cleanup-helper">>

Scripts == <<"px-ldap-group-cleanup">>

\* The classifier list without its license entry.
ClassifiersWithoutLicense ==
    << "Programming Language :: Python :: 3",
       "Operating System :: OS Independent" >>

Classifiers ==
    << "Programming Language :: Python :: 3",
       "License :: OSI Approved :: BSD License",
       "Operating System :: OS Independent" >>

SetupKwargs(ld, pk) ==
    [ name                          |-> Name,
      version                       |-> Version,
      scripts                       |-> Scripts,
      author                        |-> "P. H.",
      author_email                  |-> "px-ldap-group-cleanup.perfide@safersignup.de",
      description                   |-> "A LDAP group cleanup script",
      long_description              |-> ld,
      long_description_content_type |-> "text/markdown",
      url                           |-> "https://github.com/perfide/px-ldap-group-cleanup",
      packages                      |-> pk,
      classifiers                   |-> Classifiers ]

---------------------------------------------------------------------------
(* Initial state: the interpreter is about to run the first statement      *)

Init ==
    /\ pc = "import"
    /\ readmeExists \in BOOLEAN
    /\ readme \in (IF readmeExists THEN BoundedSeq(Bytes, MaxLen) ELSE {<<>>})
    /\ encoding \in Encodings
    /\ fh = "unopened"
    /\ fhPos = 0
    /\ exc = "None"
    /\ long_description = Unbound
    /\ packages = NotEvaluated
    /\ setupLog = <<>>

---------------------------------------------------------------------------
(* One action per statement                                                *)

\* import setuptools
ImportSetuptools ==
    /\ pc = "import"
    /\ \E installed \in BOOLEAN :
          IF installed
          THEN pc' = "open" /\ exc' = exc
          ELSE pc' = "error" /\ exc' = "ImportError"
    /\ UNCHANGED <<readmeExists, readme, encoding, fh, fhPos, long_description,
                   packages, setupLog>>

\* with open('README.md', 'r') as fh:   -- the open() call and __enter__
OpenReadme ==
    /\ pc = "open"
    /\ IF readmeExists
       THEN pc' = "read" /\ fh' = "open" /\ exc' = exc
       ELSE pc' = "error" /\ fh' = fh /\ exc' = "OSError(open)"
    /\ UNCHANGED <<readmeExists, readme, encoding, fhPos, long_description,
                   packages, setupLog>>

\* fh.readline() in place of fh.read(): only the first line is kept.
ReadReadmeFirstLine ==
    /\ pc = "read"
    /\ fh = "open"
    /\ Decodable(readme, encoding)
    /\ long_description' = FirstLine(FhRead(readme, encoding))
    /\ fhPos' = Len(readme)
    /\ pc' = "exit_with"
    /\ UNCHANGED <<readmeExists, readme, encoding, fh, exc, packages, setupLog>>

\* long_description = fh.read()
ReadReadme ==
    /\ pc = "read"
    /\ fh = "open"
    /\ \E ioError \in BOOLEAN :
          IF ioError
          THEN /\ exc' = "OSError(read)"
               /\ UNCHANGED <<long_description, fhPos>>
          ELSE IF Decodable(readme, encoding)
          THEN /\ long_description' = FhRead(readme, encoding)
               /\ fhPos' = Len(readme)
               /\ exc' = exc
          ELSE /\ exc' = "UnicodeDecodeError"
               /\ UNCHANGED <<long_description, fhPos>>
    /\ pc' = "exit_with"
    /\ UNCHANGED <<readmeExists, readme, encoding, fh, packages, setupLog>>

\* A with-block exit that swallows the exception of its body.
CloseReadmeSwallow ==
    /\ pc = "exit_with"
    /\ fh' = "closed"
    /\ pc' = "find_packages"
    /\ UNCHANGED <<readmeExists, readme, encoding, fhPos, exc, long_description,
                   packages, setupLog>>

\* A with-block exit that goes back to open README.md again after a failed
\* read.
CloseReadmeRetry ==
    /\ pc = "exit_with"
    /\ IF exc = "None"
       THEN fh' = "closed" /\ pc' = "find_packages" /\ exc' = exc
       ELSE fh' = "unopened" /\ pc' = "open" /\ exc' = "None"
    /\ UNCHANGED <<readmeExists, readme, encoding, fhPos, long_description,
                   packages, setupLog>>

\* leaving the with-block: fh.__exit__ closes the file and lets a pending
\* exception propagate
CloseReadme ==
    /\ pc = "exit_with"
    /\ fh' = "closed"
    /\ pc' = IF exc = "None" THEN "find_packages" ELSE "error"
    /\ UNCHANGED <<readmeExists, readme, encoding, fhPos, exc, long_description,
                   packages, setupLog>>

\* packages=setuptools.find_packages(), evaluated before the call
FindPackages ==
    /\ pc = "find_packages"
    /\ \E found \in SUBSET PackageDirs : packages' = found
    /\ pc' = "setup"
    /\ UNCHANGED <<readmeExists, readme, encoding, fh, fhPos, exc, long_description,
                   setupLog>>

\* The setup call indented into the with-block: it runs before the block is
\* left.
CallSetupInsideWith ==
    /\ pc \in {"exit_with", "setup"}
    /\ exc = "None"
    /\ setupLog = <<>>
    /\ setupLog' = Append(setupLog, SetupKwargs(long_description, packages))
    /\ pc' = "done"
    /\ UNCHANGED <<readmeExists, readme, encoding, fh, fhPos, exc, long_description,
                   packages>>

\* setuptools.setup(...): the call is made, then returns or raises
CallSetup ==
    /\ pc = "setup"
    /\ setupLog' = Append(setupLog, SetupKwargs(long_description, packages))
    /\ \E raised \in BOOLEAN :
          IF raised
          THEN pc' = "error" /\ exc' = "DistutilsError"
          ELSE pc' = "done" /\ exc' = exc
    /\ UNCHANGED <<readmeExists, readme, encoding, fh, fhPos, long_description,
                   packages>>

Next ==
    \/ ImportSetuptools
    \/ OpenReadme
    \/ ReadReadme
    \/ CloseReadme
    \/ FindPackages
    \/ CallSetup

Spec == Init /\ [][Next]_vars

\* The interpreter always runs the next statement: every call returns or
\* raises.
FairSpec == Spec /\ WF_vars(Next)

---------------------------------------------------------------------------
(* Vocabulary of the properties                                            *)

Terminated == pc \in {"done", "error"}

SetupCalled == Len(setupLog) >= 1

Calls == {setupLog[i] : i \in DOMAIN setupLog}

Elements(list) == {list[i] : i \in DOMAIN list}

ReadmeFailed == exc \in ReadmeErrors

\* Position of a statement in the file: statements run top to bottom.
Rank(p) ==
    CASE p = "import"        -> 1
      [] p = "open"          -> 2
      [] p = "read"          -> 3
      [] p = "exit_with"     -> 4
      [] p = "find_packages" -> 5
      [] p = "setup"         -> 6
      [] p = "done"          -> 7
      [] p = "error"         -> 7

---------------------------------------------------------------------------
(* Properties                                                              *)

\* C1: every setuptools.setup call registers exactly one script, and it is
\* 'px-ldap-group-cleanup'; the call passes no entry_points argument, so no
\* other script or console entry point is registered.
C1_SingleScript ==
    \A kw \in Calls :
        /\ Elements(kw.scripts) = {"px-ldap-group-cleanup"}
        /\ Cardinality(Elements(kw.scripts)) = 1
        /\ Len(kw.scripts) = 1
        /\ "entry_points" \notin DOMAIN kw

C1_Witness ==
    /\ pc = "done"
    /\ Len(setupLog) = 1
    /\ setupLog[1].scripts = <<"px-ldap-group-cleanup">>

\* C2: every setuptools.setup call declares name 'px-ldap-group-cleanup' and
\* version '0.0.1', and its classifiers include the Python 3 target and OS
\* independence, whatever README.md holds and whatever packages were found.
C2_DeclaredMetadata ==
    \A kw \in Calls :
        /\ kw.name = "px-ldap-group-cleanup"
        /\ kw.version = "0.0.1"
        /\ "Programming Language :: Python :: 3" \in Elements(kw.classifiers)
        /\ "Operating System :: OS Independent" \in Elements(kw.classifiers)

\* a call made with an empty README.md text and a non-literal package list
C2_Witness ==
    /\ SetupCalled
    /\ setupLog[1].long_description = <<>>
    /\ setupLog[1].packages # {}
    /\ setupLog[1].version = "0.0.1"

\* Values of a license argument, or classifiers, that would identify the
\* license as BSD-2-Clause (the SPDX identifier and name of the header
\* comment of setup.py).
BSD2ClauseNames == {"BSD-2-Clause", "BSD 2-Clause \"Simplified\" License"}

BSD2ClauseClassifiers ==
    { "License :: OSI Approved :: BSD-2-Clause",
      "License :: OSI Approved :: BSD 2-Clause \"Simplified\" License" }

IdentifiesBSD2Clause(kw) ==
    \/ "license" \in DOMAIN kw /\ kw.license \in BSD2ClauseNames
    \/ "license_expression" \in DOMAIN kw /\ kw.license_expression \in BSD2ClauseNames
    \/ Elements(kw.classifiers) \cap BSD2ClauseClassifiers # {}

\* C3 as stated: the arguments of every setuptools.setup call identify the
\* license as BSD-2-Clause.
C3_LicenseIsBSD2Clause == \A kw \in Calls : IdentifiesBSD2Clause(kw)

\* C3 as amended: every setuptools.setup call passes no license argument;
\* the only license metadata it passes is the classifier
\* 'License :: OSI Approved :: BSD License', which does not identify the
\* BSD-2-Clause variant.
C3_LicenseIsBSDFamilyClassifier ==
    \A kw \in Calls :
        /\ "license" \notin DOMAIN kw
        /\ "license_expression" \notin DOMAIN kw
        /\ "License :: OSI Approved :: BSD License" \in Elements(kw.classifiers)
        /\ ~IdentifiesBSD2Clause(kw)

C3_Witness ==
    /\ SetupCalled
    /\ Len(setupLog[1].classifiers) = 3
    /\ setupLog[1].classifiers[2] = "License :: OSI Approved :: BSD License"

\* C4: README.md is opened, read to the end and closed before
\* setuptools.setup is called, and setup is called at most once: the text is
\* assigned only through the open handle, the handle is closed only after
\* it was open, and a call happens only with the handle closed, the file
\* consumed to its end and the text assigned.
C4_ReadThenCloseThenSetup ==
    /\ [](Len(setupLog) <= 1)
    /\ [](SetupCalled => fh = "closed" /\ fhPos = Len(readme)
                         /\ long_description # Unbound)
    /\ [][long_description' # long_description => fh = "open" /\ fh' = "open"]_vars
    /\ [][fh' = "closed" => fh \in {"open", "closed"}]_vars
    /\ [][fh = "closed" => fh' = "closed"]_vars
    /\ [][setupLog' # setupLog =>
            /\ fh = "closed"
            /\ fhPos = Len(readme)
            /\ long_description # Unbound
            /\ setupLog = <<>>]_vars

C4_Witness ==
    /\ SetupCalled
    /\ fh = "closed"
    /\ Len(readme) >= 2
    /\ fhPos = Len(readme)

\* C5: when README.md cannot be opened or read, setuptools.setup is never
\* called in that run (nothing is registered) and the run ends in the error
\* state.
C5_ReadmeFailureSkipsSetup ==
    /\ [](~readmeExists => setupLog = <<>> /\ pc # "done")
    /\ [](ReadmeFailed => setupLog = <<>> /\ pc \in {"exit_with", "error"})
    /\ [][ReadmeFailed => ReadmeFailed']_vars
    /\ (ReadmeFailed ~> pc = "error")
    /\ ((~readmeExists /\ pc = "open") ~> (pc = "error" /\ exc = "OSError(open)"))

C5_Witness ==
    /\ pc = "error"
    /\ exc = "UnicodeDecodeError"
    /\ fh = "closed"
    /\ setupLog = <<>>

\* C6: in every setuptools.setup call, long_description is the complete
\* text that fh.read() returned for README.md (the decoded,
\* newline-translated content of the whole file, as held by the module
\* global), and long_description_content_type is 'text/markdown'.
C6_LongDescriptionIsReadme ==
    \A kw \in Calls :
        /\ kw.long_description = UniversalNewlines(Decode(readme, encoding))
        /\ kw.long_description = long_description
        /\ fhPos = Len(readme)
        /\ kw.long_description_content_type = "text/markdown"

\* a call whose text has more than one line
C6_Witness ==
    /\ SetupCalled
    /\ Len(setupLog[1].long_description) >= 2
    /\ setupLog[1].long_description[1] = "LF"

\* the two outcomes of a run
CalledOnceWithMetadata ==
    /\ Len(setupLog) = 1
    /\ setupLog[1].name = "px-ldap-group-cleanup"
    /\ setupLog[1].version = "0.0.1"
    /\ setupLog[1].scripts = <<"px-ldap-group-cleanup">>

ErrorBeforeSetup == pc = "error" /\ setupLog = <<>>

\* C7: every step moves to a later statement (no loop, no retry), every run
\* terminates, and a terminated run is in exactly one of the two outcomes
\* 'setup called once with the declared metadata' and 'error before setup
\* was called'.
C7_TerminatesInOneOfTwo ==
    /\ [][Rank(pc') > Rank(pc)]_vars
    /\ <>Terminated
    /\ [](Terminated => (CalledOnceWithMetadata /\ ~ErrorBeforeSetup)
                        \/ (ErrorBeforeSetup /\ ~CalledOnceWithMetadata))
    /\ [][Terminated => UNCHANGED vars]_vars

C7_Witness ==
    /\ Terminated
    /\ exc = "DistutilsError"
    /\ CalledOnceWithMetadata

=============================================================================
